---- MODULE Spec2Model ----
(***************************************************************************)
(* otaku-news-backend: the API server (server.js) over the hosted store.   *)
(* Every handler is a sequence of store calls; each `await` is one atomic  *)
(* step at the store, and requests interleave between their awaits.  A     *)
(* store call either succeeds or returns {error}; the handler sees the     *)
(* error only where the code looks at it.  The ingestion job              *)
(* (scripts/fetch-youtube-trending.js) is one sequential process: each     *)
(* await of main is one step.                                              *)
(***************************************************************************)
EXTENDS Integers, Sequences, FiniteSets, TLC

\* ---------------------------------------------------------------- bounds
MaxRequests == 2        \* requests started in one behaviour
MaxInitCount == 1       \* largest counter value an article starts with
MaxParam == 2           \* largest offset / limit value a client sends
MaxRaceRequests == 4    \* requests started in one behaviour of SpecRace
NumManyArticles == 12   \* rows of the articles collection in SpecMany
MaxOther == 2           \* of which at most this many are not anime

\* ------------------------------------------------------ values and inputs
Slots == {"r1", "r2"}                  \* requests that can be in flight at once
ArticleIds == {"a1", "a2", "a3"}       \* rows of the articles collection
NoSuchId == "zz"                       \* an id no article row has
Categories == {"anime", "game", "music"}
UserIds == {"u1", "u2"}

\* an optional JSON / query field: absent, or present with a value
Absent == <<>>
Some(v) == <<v>>
Opt(S) == {Absent} \cup {Some(v) : v \in S}

\* JS truthiness of an optional string field: undefined and "" are falsy
TruthyStr(o) == o # Absent /\ o[1] # ""
\* JS truthiness of an optional array field: every array is truthy
TruthyArr(o) == o # Absent

VARIABLES
  articles,          \* articles collection: id -> row
  comments,          \* comments collection, in insertion (created_at) order
  user_preferences,  \* user_preferences collection, in insertion order
  clock,             \* the wall clock, read by new Date()
  pc,                \* per request: the await it is suspended at
  req,               \* per request: method/route and the request parameters
  local,             \* per request: the handler's local variables
  res,               \* per request: the response sent
  started,           \* number of requests started so far
  pre,               \* per request: the articles collection when it started
  alone,             \* per request: no other request on its article (user)
                     \* was in flight while it ran
  gwErr,             \* per request: some store call of it failed
  prefOk,            \* per user: preference upserts answered 200 so far
  anyErr,            \* some store call has failed so far
  job,               \* the ingestion job: main's position and local variables
  ingested,          \* the article rows this run of the job inserted, in order
  jobLog             \* what the run has searched, found and tried to insert

serverVars == <<articles, comments, user_preferences, clock, pc, req, local,
                res, started, pre, alone, gwErr, prefOk, anyErr>>
jobVars == <<job, ingested, jobLog>>
vars == <<serverVars, jobVars>>

\* --------------------------------------------------------------- the store
\* published_at of the rows: distinct, a1 the most recent
PublishedAt(id) == CASE id = "a1" -> 3 [] id = "a2" -> 2 [] OTHER -> 1

\* reactions collection: read-only in this codebase
Reactions == << [article_id |-> "a1", type |-> "fire"] >>

RECURSIVE NewestFirst(_, _, _)
\* the rows 1..i of a collection that carry article_id id, the most recently
\* inserted first
NewestFirst(coll, id, i) ==
  IF i = 0 THEN <<>>
  ELSE IF coll[i].article_id = id
       THEN <<coll[i]>> \o NewestFirst(coll, id, i - 1)
       ELSE NewestFirst(coll, id, i - 1)

\* .from(t).select('*').eq('article_id', id).order('created_at', desc)
ByArticleDesc(coll, id) == NewestFirst(coll, id, Len(coll))

NoRes == [status |-> 0, data |-> <<>>]
NoLocal == [article |-> Absent, existing |-> Absent, data |-> Absent,
            reactions |-> <<>>, comments |-> <<>>]
NoReq == [kind |-> "none", seq |-> 0]

InFlight(r) == pc[r] \notin {"idle", "done"}
\* the article (the user, for a preference upsert) a request reads and writes
Target(q) == IF q.kind = "getArticle" THEN Some(q.id)
             ELSE IF q.kind = "postComment" THEN q.article_id
             ELSE IF q.kind = "postPrefs" THEN q.user_id
             ELSE Absent

\* a request arrives on a free slot; seq numbers the requests in arrival order
Arrive(r, q, nextpc, response) ==
  /\ ~InFlight(r)
  /\ started' = started + 1
  /\ req' = [req EXCEPT ![r] = [q EXCEPT !.seq = started + 1]]
  /\ pc' = [pc EXCEPT ![r] = nextpc]
  /\ local' = [local EXCEPT ![r] = NoLocal]
  /\ res' = [res EXCEPT ![r] = response]
  /\ pre' = [pre EXCEPT ![r] = articles]
  /\ gwErr' = [gwErr EXCEPT ![r] = FALSE]
  /\ UNCHANGED anyErr
  /\ alone' = [s \in Slots |->
                 IF s = r
                 THEN \A o \in Slots \ {r} :
                        ~(InFlight(o) /\ Target(req[o]) = Target(q))
                 ELSE IF InFlight(s) /\ Target(req[s]) = Target(q)
                      THEN FALSE ELSE alone[s]]

\* an arrival while the run has requests left
Begin(r, q, nextpc, response) ==
  /\ started < MaxRequests
  /\ Arrive(r, q, nextpc, response)

\* the catch block: res.status(500).json({success: false, error})
Fail500(r) ==
  /\ pc' = [pc EXCEPT ![r] = "done"]
  /\ res' = [res EXCEPT ![r] = [status |-> 500, data |-> <<>>]]
  /\ gwErr' = [gwErr EXCEPT ![r] = TRUE]
  /\ local' = [local EXCEPT ![r] = NoLocal]

\* ------------------------------------------------ GET /api/articles/:id
GetArticleIds == {"a1", "a2", NoSuchId}

GetArticle_Start(r, id) ==
  /\ Begin(r, [kind |-> "getArticle", seq |-> 0, id |-> id], "get_article", NoRes)
  /\ UNCHANGED jobVars
  /\ UNCHANGED <<articles, comments, user_preferences, clock, prefOk>>

\* .from('articles').select('*').eq('id', id).single(); throws on error
GetArticle_ReadArticle(r, ok) ==
  /\ pc[r] = "get_article"
  /\ anyErr' = (anyErr \/ ~ok)
  /\ IF ok /\ req[r].id \in ArticleIds
     THEN /\ local' = [local EXCEPT ![r].article = Some(articles[req[r].id])]
          /\ pc' = [pc EXCEPT ![r] = "get_reactions"]
          /\ UNCHANGED <<res, gwErr>>
     ELSE Fail500(r)
  /\ UNCHANGED jobVars
  /\ UNCHANGED <<articles, comments, user_preferences, clock, req, started,
                 pre, alone, prefOk>>

\* reactions of the article; throws on error
GetArticle_ReadReactions(r, ok) ==
  /\ pc[r] = "get_reactions"
  /\ anyErr' = (anyErr \/ ~ok)
  /\ IF ok
     THEN /\ local' = [local EXCEPT
                 ![r].reactions = ByArticleDesc(Reactions, req[r].id)]
          /\ pc' = [pc EXCEPT ![r] = "get_comments"]
          /\ UNCHANGED <<res, gwErr>>
     ELSE Fail500(r)
  /\ UNCHANGED jobVars
  /\ UNCHANGED <<articles, comments, user_preferences, clock, req, started,
                 pre, alone, prefOk>>

\* comments of the article; throws on error
GetArticle_ReadComments(r, ok) ==
  /\ pc[r] = "get_comments"
  /\ anyErr' = (anyErr \/ ~ok)
  /\ IF ok
     THEN /\ local' = [local EXCEPT
                 ![r].comments = ByArticleDesc(comments, req[r].id)]
          /\ pc' = [pc EXCEPT ![r] = "get_update_view"]
          /\ UNCHANGED <<res, gwErr>>
     ELSE Fail500(r)
  /\ UNCHANGED jobVars
  /\ UNCHANGED <<articles, comments, user_preferences, clock, req, started,
                 pre, alone, prefOk>>

\* a slip of the increment: two is added
NextViewCount_PlusTwo(article) == article.view_count + 2

\* the value written to view_count: article.view_count + 1
NextViewCount(article) == article.view_count + 1

\* update({view_count: article.view_count + 1}).eq('id', id): the result of
\* the call is not looked at; then the 200 response
GetArticle_UpdateView(r, ok) ==
  /\ pc[r] = "get_update_view"
  /\ anyErr' = (anyErr \/ ~ok)
  /\ LET id == req[r].id
         article == local[r].article[1]
     IN /\ articles' = IF ok
                       THEN [articles EXCEPT
                               ![id].view_count = NextViewCount(article)]
                       ELSE articles
        /\ res' = [res EXCEPT ![r] =
                     [status |-> 200,
                      data |-> [article |-> article,
                                reactions |-> local[r].reactions,
                                comments |-> local[r].comments]]]
  /\ gwErr' = [gwErr EXCEPT ![r] = ~ok]
  /\ pc' = [pc EXCEPT ![r] = "done"]
  /\ local' = [local EXCEPT ![r] = NoLocal]
  /\ UNCHANGED jobVars
  /\ UNCHANGED <<comments, user_preferences, clock, req, started, pre, alone,
                 prefOk>>

\* ---------------------------------------------------- POST /api/comments
CommentBodies ==
  [article_id : Opt({"a1", "a2", NoSuchId}),
   user_name : {Absent},
   user_avatar : {Absent},
   text : Opt({"", "hi"})]

\* valid bodies for a1 with user_name and user_avatar left out, sent empty or
\* sent with a value
NamedCommentBodies ==
  [article_id : {Some("a1")},
   user_name : Opt({"", "taro"}),
   user_avatar : Opt({"", "cat-glyph"}),
   text : {Some("hi")}]

\* a slip of the validation: the text is not looked at
CommentInvalid_NoTextCheck(b) == ~TruthyStr(b.article_id)

\* if (!article_id || !text)
CommentInvalid(b) == ~TruthyStr(b.article_id) \/ ~TruthyStr(b.text)

\* the literals of the insert: the anonymous label and the default glyph
AnonymousName == "anonymous-label"
DefaultAvatar == "smile-glyph"

\* a slip of the insert: the label is stored whatever name was sent
CommentRow_NameOverwritten(b) ==
  [article_id |-> b.article_id[1],
   user_name |-> AnonymousName,
   user_avatar |-> IF TruthyStr(b.user_avatar) THEN b.user_avatar[1] ELSE DefaultAvatar,
   text |-> b.text[1]]

\* the row inserted: user_name || AnonymousName, user_avatar || DefaultAvatar
CommentRow(b) ==
  [article_id |-> b.article_id[1],
   user_name |-> IF TruthyStr(b.user_name) THEN b.user_name[1] ELSE AnonymousName,
   user_avatar |-> IF TruthyStr(b.user_avatar) THEN b.user_avatar[1] ELSE DefaultAvatar,
   text |-> b.text[1]]

PostComment_Start(r, b) ==
  LET q == [kind |-> "postComment", seq |-> 0, article_id |-> b.article_id,
            user_name |-> b.user_name, user_avatar |-> b.user_avatar,
            text |-> b.text]
  IN /\ IF CommentInvalid(b)
        THEN Begin(r, q, "done", [status |-> 400, data |-> <<>>])
        ELSE Begin(r, q, "post_insert", NoRes)
     /\ UNCHANGED jobVars
     /\ UNCHANGED <<articles, comments, user_preferences, clock, prefOk>>

\* .from('comments').insert([...]).select(); throws on error
PostComment_Insert(r, ok) ==
  /\ pc[r] = "post_insert"
  /\ anyErr' = (anyErr \/ ~ok)
  /\ IF ok
     THEN /\ comments' = Append(comments, CommentRow(req[r]))
          /\ local' = [local EXCEPT ![r].data = Some(CommentRow(req[r]))]
          /\ pc' = [pc EXCEPT ![r] = "post_read_count"]
          /\ UNCHANGED <<res, gwErr>>
     ELSE /\ Fail500(r)
          /\ UNCHANGED comments
  /\ UNCHANGED jobVars
  /\ UNCHANGED <<articles, user_preferences, clock, req, started, pre, alone, prefOk>>

\* select('comment_count').eq('id', article_id).single(): only data is
\* destructured, the error is dropped
PostComment_ReadCount(r, ok) ==
  /\ pc[r] = "post_read_count"
  /\ anyErr' = (anyErr \/ ~ok)
  /\ LET id == req[r].article_id[1]
     IN IF ok /\ id \in ArticleIds
        THEN /\ local' = [local EXCEPT ![r].article =
                            Some([comment_count |-> articles[id].comment_count])]
             /\ UNCHANGED gwErr
        ELSE /\ local' = [local EXCEPT ![r].article = Absent]
             /\ gwErr' = [gwErr EXCEPT ![r] = ~ok]
  /\ pc' = [pc EXCEPT ![r] = "post_update_count"]
  /\ UNCHANGED jobVars
  /\ UNCHANGED <<articles, comments, user_preferences, clock, req, res,
                 started, pre, alone, prefOk>>

\* (article?.comment_count || 0) + 1
NextCommentCount(article) ==
  (IF article = Absent THEN 0 ELSE article[1].comment_count) + 1

\* update({comment_count: ...}).eq('id', article_id): the result is not looked
\* at; then the 200 response with the inserted row
PostComment_UpdateCount(r, ok) ==
  /\ pc[r] = "post_update_count"
  /\ anyErr' = (anyErr \/ ~ok)
  /\ LET id == req[r].article_id[1]
     IN articles' = IF ok /\ id \in ArticleIds
                    THEN [articles EXCEPT ![id].comment_count =
                            NextCommentCount(local[r].article)]
                    ELSE articles
  /\ res' = [res EXCEPT ![r] = [status |-> 200, data |-> local[r].data[1]]]
  /\ gwErr' = [gwErr EXCEPT ![r] = gwErr[r] \/ ~ok]
  /\ pc' = [pc EXCEPT ![r] = "done"]
  /\ local' = [local EXCEPT ![r] = NoLocal]
  /\ UNCHANGED jobVars
  /\ UNCHANGED <<comments, user_preferences, clock, req, started, pre, alone,
                 prefOk>>

\* --------------------------------------------- POST /api/user-preferences
PrefBodies ==
  [user_id : Opt(UserIds),
   favorite_categories : Opt({<<>>, <<"anime">>}),
   viewed_articles : Opt({<<"a1">>})]

\* last_visit of a row the handler inserted: the insert does not set it
NoTime == 0

\* the rows of a user_preferences collection with .eq('user_id', u)
RowsOf(coll, u) == {i \in 1..Len(coll) : coll[i].user_id = u}
PrefRowsOf(u) == RowsOf(user_preferences, u)

\* if (!user_id) return 400; the clock is read when the request arrives
UserPrefs_Start(r, b) ==
  LET q == [kind |-> "postPrefs", seq |-> 0, user_id |-> b.user_id,
            favorite_categories |-> b.favorite_categories,
            viewed_articles |-> b.viewed_articles, at |-> clock + 1]
  IN /\ IF ~TruthyStr(b.user_id)
        THEN Begin(r, q, "done", [status |-> 400, data |-> <<>>])
        ELSE Begin(r, q, "prefs_read", NoRes)
     /\ clock' = clock + 1
     /\ UNCHANGED jobVars
     /\ UNCHANGED <<articles, comments, user_preferences, prefOk>>

\* select('*').eq('user_id', user_id).single(): only data is destructured;
\* .single() gives data only when exactly one row matches
UserPrefs_ReadExisting(r, ok) ==
  /\ pc[r] = "prefs_read"
  /\ anyErr' = (anyErr \/ ~ok)
  /\ LET rows == PrefRowsOf(req[r].user_id[1])
     IN IF ok /\ Cardinality(rows) = 1
        THEN /\ local' = [local EXCEPT ![r].existing =
                            Some(user_preferences[CHOOSE i \in rows : TRUE])]
             /\ UNCHANGED gwErr
        ELSE /\ local' = [local EXCEPT ![r].existing = Absent]
             /\ gwErr' = [gwErr EXCEPT ![r] = gwErr[r] \/ ~ok]
  /\ pc' = [pc EXCEPT ![r] = "prefs_write"]
  /\ UNCHANGED jobVars
  /\ UNCHANGED <<articles, comments, user_preferences, clock, req, res,
                 started, pre, alone, prefOk>>

\* the object passed to update(): supplied || existing, last_visit: now
PrefsMerged(q, existing, now) ==
  [favorite_categories |-> IF TruthyArr(q.favorite_categories)
                           THEN q.favorite_categories[1]
                           ELSE existing.favorite_categories,
   viewed_articles |-> IF TruthyArr(q.viewed_articles)
                       THEN q.viewed_articles[1]
                       ELSE existing.viewed_articles,
   last_visit |-> now]

\* the row passed to insert(): supplied || []
PrefsNewRow(q) ==
  [user_id |-> q.user_id[1],
   favorite_categories |-> IF TruthyArr(q.favorite_categories)
                           THEN q.favorite_categories[1] ELSE <<>>,
   viewed_articles |-> IF TruthyArr(q.viewed_articles)
                       THEN q.viewed_articles[1] ELSE <<>>,
   last_visit |-> NoTime]

\* if (existing) update(...).eq('user_id', user_id) else insert([...]);
\* either throws on error; then the 200 response
UserPrefs_Write(r, ok) ==
  /\ pc[r] = "prefs_write"
  /\ anyErr' = (anyErr \/ ~ok)
  /\ LET q == req[r]
         u == q.user_id[1]
         rows == PrefRowsOf(u)
         upd == PrefsMerged(q, local[r].existing[1], clock + 1)
         updated == [i \in 1..Len(user_preferences) |->
                       IF i \in rows
                       THEN [user_id |-> u,
                             favorite_categories |-> upd.favorite_categories,
                             viewed_articles |-> upd.viewed_articles,
                             last_visit |-> upd.last_visit]
                       ELSE user_preferences[i]]
     IN IF local[r].existing # Absent
        THEN /\ clock' = clock + 1
             /\ IF ok
                THEN /\ user_preferences' = updated
                     /\ res' = [res EXCEPT ![r] = [status |-> 200,
                                  data |-> [updated |-> TRUE, row |-> u]]]
                     /\ pc' = [pc EXCEPT ![r] = "done"]
                     /\ local' = [local EXCEPT ![r] = NoLocal]
                     /\ prefOk' = [prefOk EXCEPT ![u] = prefOk[u] + 1]
                     /\ UNCHANGED gwErr
                ELSE /\ Fail500(r)
                     /\ UNCHANGED <<user_preferences, prefOk>>
        ELSE /\ UNCHANGED clock
             /\ IF ok
                THEN /\ user_preferences' =
                          Append(user_preferences, PrefsNewRow(q))
                     /\ res' = [res EXCEPT ![r] = [status |-> 200,
                                  data |-> [updated |-> FALSE, row |-> u]]]
                     /\ pc' = [pc EXCEPT ![r] = "done"]
                     /\ local' = [local EXCEPT ![r] = NoLocal]
                     /\ prefOk' = [prefOk EXCEPT ![u] = prefOk[u] + 1]
                     /\ UNCHANGED gwErr
                ELSE /\ Fail500(r)
                     /\ UNCHANGED <<user_preferences, prefOk>>
  /\ UNCHANGED jobVars
  /\ UNCHANGED <<articles, comments, req, started, pre, alone>>

\* ------------------------------------------------------ GET /api/articles
\* a JS value in the range arithmetic: a number, or the decimal string of one
Num(n) == [t |-> "num", v |-> n]
Str(n) == [t |-> "str", v |-> n]

RECURSIVE Digits(_)
\* the length of the decimal string of n
Digits(n) == IF n < 10 THEN 1 ELSE 1 + Digits(n \div 10)

RECURSIVE Pow10(_)
Pow10(k) == IF k = 0 THEN 1 ELSE 10 * Pow10(k - 1)

\* JS a + b: addition of two numbers, concatenation when either is a string
JsPlus(a, b) ==
  IF a.t = "num" /\ b.t = "num"
  THEN Num(a.v + b.v)
  ELSE Str(a.v * Pow10(Digits(b.v)) + b.v)

\* JS a - b: both operands converted to numbers
JsMinus(a, b) == Num(a.v - b.v)

\* const { category, limit = 20, offset = 0 } = req.query
DefaultLimit == 20
DefaultOffset == 0
QueryLimit(q) == IF q.limit = Absent THEN Num(DefaultLimit) ELSE Str(q.limit[1])
QueryOffset(q) == IF q.offset = Absent THEN Num(DefaultOffset) ELSE Str(q.offset[1])

\* the second argument of .range(): offset + limit - 1
RangeTo(q) == JsMinus(JsPlus(QueryOffset(q), QueryLimit(q)), Num(1))

RECURSIVE SortDesc(_)
\* .order('published_at', { ascending: false }) over a set of rows
SortDesc(rows) ==
  IF rows = {} THEN <<>>
  ELSE LET m == CHOOSE x \in rows :
                  \A y \in rows : x.published_at >= y.published_at
       IN <<m>> \o SortDesc(rows \ {m})

AllRows == {articles[id] : id \in DOMAIN articles}

\* a slip of the filter: the equality filter is never added
CategoryFilter_Dropped(rows, category) == rows

\* if (category && category !== 'all') query = query.eq('category', category)
CategoryFilter(rows, category) ==
  IF TruthyStr(category) /\ category[1] # "all"
  THEN {a \in rows : a.category = category[1]}
  ELSE rows

\* .range(from, to): offset=from, limit=to - from + 1, applied by the store
\* to the filtered, ordered rows
RangeOf(list, from, to) ==
  LET limit == JsPlus(JsMinus(to, from), Num(1)).v
      last == IF from.v + limit < Len(list) THEN from.v + limit ELSE Len(list)
  IN SubSeq(list, from.v + 1, last)

ListArticlesData(q) ==
  RangeOf(SortDesc(CategoryFilter(AllRows, q.category)),
          QueryOffset(q), RangeTo(q))

ListQueries ==
  [category : Opt(Categories \cup {"all", ""}),
   limit : Opt(1..MaxParam),
   offset : Opt(0..MaxParam)]

\* one store call; throws on error
ListArticles(r, q, ok) ==
  /\ ~InFlight(r)
  /\ anyErr' = (anyErr \/ ~ok)
  /\ req' = [req EXCEPT ![r] = [kind |-> "listArticles", seq |-> 0, category |-> q.category,
                                 limit |-> q.limit, offset |-> q.offset]]
  /\ res' = [res EXCEPT ![r] =
               IF ok THEN [status |-> 200, data |-> ListArticlesData(q)]
               ELSE [status |-> 500, data |-> <<>>]]
  /\ gwErr' = [gwErr EXCEPT ![r] = ~ok]
  /\ pc' = [pc EXCEPT ![r] = "done"]
  /\ UNCHANGED jobVars
  /\ UNCHANGED <<articles, comments, user_preferences, clock, local, started,
                 pre, alone, prefOk>>

\* ------------------------------------- POST /api/recommendations/articles
RecLimit == 10

\* Array.prototype.includes on the viewed list
Includes(list, x) == \E i \in 1..Len(list) : list[i] = x

\* if (categories && categories.length > 0) query.in('category', categories)
CategoriesFilter(rows, categories) ==
  IF TruthyArr(categories) /\ Len(categories[1]) > 0
  THEN {a \in rows : Includes(categories[1], a.category)}
  ELSE rows

\* .limit(n) on the ordered rows
LimitOf(list, n) == SubSeq(list, 1, IF n < Len(list) THEN n ELSE Len(list))

\* a slip of the exclusion: only the first viewed id is compared
ExcludeViewed_FirstOnly(data, viewed) ==
  LET Keep(a) == viewed = <<>> \/ viewed[1] # a.id IN SelectSeq(data, Keep)

\* data.filter(article => !viewed_articles.includes(article.id))
ExcludeViewed(data, viewed) ==
  LET Keep(a) == ~Includes(viewed, a.id) IN SelectSeq(data, Keep)

\* const { user_id, categories, viewed_articles = [] } = req.body
ViewedOf(b) == IF b.viewed_articles = Absent THEN <<>> ELSE b.viewed_articles[1]

\* a slip of the order: the viewed rows are taken out before the limit
RecommendData_ExcludeBeforeLimit(b) ==
  LimitOf(
    ExcludeViewed(SortDesc(CategoriesFilter(AllRows, b.categories)), ViewedOf(b)),
    RecLimit)

\* the query .order('published_at', desc).limit(10) with the optional
\* .in('category', categories), then the filter on the rows returned
RecommendData(b) ==
  ExcludeViewed(
    LimitOf(SortDesc(CategoriesFilter(AllRows, b.categories)), RecLimit),
    ViewedOf(b))

RecommendBodies ==
  [categories : Opt({<<>>, <<"anime">>, <<"game", "music">>}),
   viewed_articles : Opt({<<>>, <<"a2">>, <<"a1", "a3">>, <<NoSuchId>>})]

\* one store call; throws on error
RecommendArticles(r, b, ok) ==
  /\ ~InFlight(r)
  /\ anyErr' = (anyErr \/ ~ok)
  /\ req' = [req EXCEPT ![r] = [kind |-> "recommendArticles", seq |-> 0,
                                 categories |-> b.categories,
                                 viewed_articles |-> b.viewed_articles]]
  /\ res' = [res EXCEPT ![r] =
               IF ok THEN [status |-> 200, data |-> RecommendData(b)]
               ELSE [status |-> 500, data |-> <<>>]]
  /\ gwErr' = [gwErr EXCEPT ![r] = ~ok]
  /\ pc' = [pc EXCEPT ![r] = "done"]
  /\ UNCHANGED jobVars
  /\ UNCHANGED <<articles, comments, user_preferences, clock, local, started,
                 pre, alone, prefOk>>

\* ------------------------------------ scripts/fetch-youtube-trending.js
\* the categories of the keywords list, in its order
keywords == <<"anime", "game", "music">>
MaxVideos == 3        \* searchTrendingVideos(keyword, 3)
MaxComments == 20     \* getVideoComments(videoId, 20)
FireThreshold == 50   \* comments.length > 50

\* the items of a search result: the i-th video found for a category
VideoItems(category, n) == [i \in 1..n |-> <<category, i>>]

\* searchTrendingVideos: data.items || [], and [] when the fetch throws or the
\* platform answers with an error
searchTrendingVideos(category, ok, n) ==
  IF ok THEN VideoItems(category, n) ELSE <<>>

\* getVideoComments: the comment list, kept as its length; [] on any error
getVideoComments(ok, n) == IF ok THEN n ELSE 0

\* a slip of the flag: fifty comments are enough
IsFire_AtLeast(n) == n >= FireThreshold

\* is_fire: comments.length > 50
IsFire(n) == n > FireThreshold

\* articleData, without its texts and its two random counters
ArticleData(video, commentsLength, category) ==
  [category |-> category,
   source_url |-> video,
   is_trending |-> TRUE,
   is_fire |-> IsFire(commentsLength),
   comment_count |-> commentsLength]

\* createArticleFromVideo: data[0] of the insert, null when the store
\* answers with an error
createArticleFromVideo(video, commentsLength, category, ok) ==
  IF ok THEN Some(ArticleData(video, commentsLength, category)) ELSE Absent

\* a slip of the count: a video counts whether or not its article was saved
CountArticle_Always(totalArticles, article) == totalArticles + 1

\* if (article) totalArticles++
CountArticle(totalArticles, article) ==
  IF article # Absent THEN totalArticles + 1 ELSE totalArticles

JobStart == [pc |-> "search", ki |-> 1, videos |-> <<>>, vi |-> 0,
             comments |-> 0, totalArticles |-> 0]
NoJobLog == [searches |-> <<>>, tried |-> <<>>, fetched |-> <<>>]

JobNotRun ==
  /\ job = JobStart
  /\ ingested = <<>>
  /\ jobLog = NoJobLog

\* the outer for: the next (keyword, category) pair, or the end of main
NextPair(j) ==
  IF j.ki < Len(keywords)
  THEN [j EXCEPT !.pc = "search", !.ki = j.ki + 1, !.videos = <<>>,
                 !.vi = 0, !.comments = 0]
  ELSE [j EXCEPT !.pc = "done", !.videos = <<>>, !.vi = 0, !.comments = 0]

\* the inner for: the next video of the keyword, or the next pair
NextVideo(j) ==
  IF j.vi < Len(j.videos)
  THEN [j EXCEPT !.pc = "comments", !.vi = j.vi + 1, !.comments = 0]
  ELSE NextPair(j)

\* const videos = await searchTrendingVideos(keyword, 3)
Main_Search(ok, n) ==
  /\ job.pc = "search"
  /\ LET category == keywords[job.ki]
         videos == searchTrendingVideos(category, ok, n)
     IN /\ job' = IF Len(videos) = 0
                  THEN NextPair(job)
                  ELSE [job EXCEPT !.pc = "comments", !.videos = videos,
                                   !.vi = 1]
        /\ jobLog' = [jobLog EXCEPT !.searches =
                        Append(@, [category |-> category, ok |-> ok,
                                   found |-> Len(videos)])]
  /\ UNCHANGED <<ingested, serverVars>>

\* const comments = await getVideoComments(videoId, 20)
Main_Comments(ok, n) ==
  /\ job.pc = "comments"
  /\ job' = [job EXCEPT !.pc = "insert", !.comments = getVideoComments(ok, n)]
  /\ UNCHANGED <<ingested, jobLog, serverVars>>

\* a slip of the loop: a rejected insert ends the run
AfterInsert_StopOnNull(j, article) ==
  IF article = Absent
  THEN [j EXCEPT !.pc = "done"]
  ELSE [j EXCEPT !.pc = "sleep",
                 !.totalArticles = CountArticle(j.totalArticles, article)]

\* main after createArticleFromVideo returned: count the article, then wait
AfterInsert(j, article) ==
  [j EXCEPT !.pc = "sleep",
            !.totalArticles = CountArticle(j.totalArticles, article)]

\* const article = await createArticleFromVideo(video, comments, category)
Main_Insert(ok) ==
  /\ job.pc = "insert"
  /\ LET video == job.videos[job.vi]
         article == createArticleFromVideo(video, job.comments,
                                           keywords[job.ki], ok)
     IN /\ ingested' = IF article # Absent THEN Append(ingested, article[1])
                       ELSE ingested
        /\ job' = AfterInsert(job, article)
        /\ jobLog' = [jobLog EXCEPT
                        !.tried = Append(@, video),
                        !.fetched = IF ok THEN Append(@, job.comments) ELSE @]
  /\ UNCHANGED serverVars

\* await new Promise(resolve => setTimeout(resolve, 1000))
Main_Sleep ==
  /\ job.pc = "sleep"
  /\ job' = NextVideo(job)
  /\ UNCHANGED <<ingested, jobLog, serverVars>>

\* ----------------------------------------------------------- specification
ArticleRows(cat, vc, cc) ==
  [id \in ArticleIds |->
     [id |-> id, category |-> cat[id], published_at |-> PublishedAt(id),
      view_count |-> vc[id], comment_count |-> cc[id]]]

InitRequests ==
  /\ pc = [r \in Slots |-> "idle"]
  /\ req = [r \in Slots |-> NoReq]
  /\ local = [r \in Slots |-> NoLocal]
  /\ res = [r \in Slots |-> NoRes]
  /\ started = 0
  /\ alone = [r \in Slots |-> TRUE]
  /\ gwErr = [r \in Slots |-> FALSE]
  /\ pre = [r \in Slots |-> articles]
  /\ anyErr = FALSE
  /\ JobNotRun

\* the body of an earlier upsert for u1, whose row is in the store
EarlierBody == [user_id |-> Some("u1"), favorite_categories |-> Some(<<"anime">>),
                viewed_articles |-> Absent]

DefaultCategory == [id \in ArticleIds |->
  CASE id = "a1" -> "anime" [] id = "a2" -> "game" [] OTHER -> "music"]

\* the store as the ingestion job and earlier requests left it
Init ==
  /\ \E vc \in 0..MaxInitCount, cc \in 0..MaxInitCount :
       articles = ArticleRows(DefaultCategory,
                              [id \in ArticleIds |-> vc],
                              [id \in ArticleIds |-> cc])
  /\ comments = <<>>
  /\ user_preferences = <<>>
  /\ prefOk = [u \in UserIds |-> 0]
  /\ clock = 1
  /\ InitRequests

Next ==
  \/ \E r \in Slots, id \in GetArticleIds : GetArticle_Start(r, id)
  \/ \E r \in Slots, ok \in BOOLEAN : GetArticle_ReadArticle(r, ok)
  \/ \E r \in Slots, ok \in BOOLEAN : GetArticle_ReadReactions(r, ok)
  \/ \E r \in Slots, ok \in BOOLEAN : GetArticle_ReadComments(r, ok)
  \/ \E r \in Slots, ok \in BOOLEAN : GetArticle_UpdateView(r, ok)
  \/ \E r \in Slots, b \in CommentBodies : PostComment_Start(r, b)
  \/ \E r \in Slots, ok \in BOOLEAN : PostComment_Insert(r, ok)
  \/ \E r \in Slots, ok \in BOOLEAN : PostComment_ReadCount(r, ok)
  \/ \E r \in Slots, ok \in BOOLEAN : PostComment_UpdateCount(r, ok)

Spec == Init /\ [][Next]_vars

\* the user-preferences handler alone, from a store without preference rows
\* or with the row one earlier upsert for u1 left
InitPrefs ==
  /\ articles = ArticleRows(DefaultCategory, [id \in ArticleIds |-> 0],
                            [id \in ArticleIds |-> 0])
  /\ comments = <<>>
  /\ \E had \in BOOLEAN :
       /\ user_preferences = IF had THEN <<PrefsNewRow(EarlierBody)>> ELSE <<>>
       /\ prefOk = [u \in UserIds |-> IF had /\ u = "u1" THEN 1 ELSE 0]
  /\ clock = 1
  /\ InitRequests

NextPrefs ==
  \/ \E r \in Slots, b \in PrefBodies : UserPrefs_Start(r, b)
  \/ \E r \in Slots, ok \in BOOLEAN : UserPrefs_ReadExisting(r, ok)
  \/ \E r \in Slots, ok \in BOOLEAN : UserPrefs_Write(r, ok)

SpecPrefs == InitPrefs /\ [][NextPrefs]_vars

\* the two read-only article queries, over every assignment of categories
InitQuery ==
  /\ \E cat \in [ArticleIds -> Categories] :
       articles = ArticleRows(cat, [id \in ArticleIds |-> 0],
                              [id \in ArticleIds |-> 0])
  /\ comments = <<>>
  /\ user_preferences = <<>>
  /\ prefOk = [u \in UserIds |-> 0]
  /\ clock = 1
  /\ InitRequests

NextQuery ==
  \/ \E q \in ListQueries, ok \in BOOLEAN : ListArticles("r1", q, ok)
  \/ \E b \in RecommendBodies, ok \in BOOLEAN : RecommendArticles("r1", b, ok)

SpecQuery == InitQuery /\ [][NextQuery]_vars

\* valid requests against the one article a1, four in a run
RaceBody == [article_id |-> Some("a1"), user_name |-> Absent,
             user_avatar |-> Absent, text |-> Some("hi")]

RaceGet_Start(r) ==
  /\ started < MaxRaceRequests
  /\ Arrive(r, [kind |-> "getArticle", seq |-> 0, id |-> "a1"], "get_article",
            NoRes)
  /\ UNCHANGED jobVars
  /\ UNCHANGED <<articles, comments, user_preferences, clock, prefOk>>

RacePost_Start(r) ==
  /\ started < MaxRaceRequests
  /\ ~CommentInvalid(RaceBody)
  /\ Arrive(r, [kind |-> "postComment", seq |-> 0,
                article_id |-> RaceBody.article_id,
                user_name |-> RaceBody.user_name,
                user_avatar |-> RaceBody.user_avatar,
                text |-> RaceBody.text], "post_insert", NoRes)
  /\ UNCHANGED jobVars
  /\ UNCHANGED <<articles, comments, user_preferences, clock, prefOk>>

InitRace ==
  /\ articles = ArticleRows(DefaultCategory, [id \in ArticleIds |-> 0],
                            [id \in ArticleIds |-> 0])
  /\ comments = <<>>
  /\ user_preferences = <<>>
  /\ prefOk = [u \in UserIds |-> 0]
  /\ clock = 1
  /\ InitRequests

NextRace ==
  \/ \E r \in Slots : RaceGet_Start(r)
  \/ \E r \in Slots, ok \in BOOLEAN : GetArticle_ReadArticle(r, ok)
  \/ \E r \in Slots, ok \in BOOLEAN : GetArticle_ReadReactions(r, ok)
  \/ \E r \in Slots, ok \in BOOLEAN : GetArticle_ReadComments(r, ok)
  \/ \E r \in Slots, ok \in BOOLEAN : GetArticle_UpdateView(r, ok)
  \/ \E r \in Slots : RacePost_Start(r)
  \/ \E r \in Slots, ok \in BOOLEAN : PostComment_Insert(r, ok)
  \/ \E r \in Slots, ok \in BOOLEAN : PostComment_ReadCount(r, ok)
  \/ \E r \in Slots, ok \in BOOLEAN : PostComment_UpdateCount(r, ok)

SpecRace == InitRace /\ [][NextRace]_vars

\* comment counts the platform answers with: the 20 asked for
PlatformCounts == {MaxComments}
\* and counts that include none, the threshold and more than was asked for
FireCounts == {0, MaxComments, FireThreshold, FireThreshold + 1}

\* one run of the ingestion job over an empty articles collection
InitJob == InitRace

NextJob ==
  \/ \E ok \in BOOLEAN, n \in 0..MaxVideos : Main_Search(ok, n)
  \/ \E ok \in BOOLEAN, n \in PlatformCounts : Main_Comments(ok, n)
  \/ \E ok \in BOOLEAN : Main_Insert(ok)
  \/ Main_Sleep

SpecJob == InitJob /\ [][NextJob]_vars

\* every await of main returns: the platform and the store answer or fail
SpecJobFair == SpecJob /\ WF_vars(NextJob)

\* a run whose searches find at most two videos, over all comment counts
NextFire ==
  \/ \E ok \in BOOLEAN, n \in 0..(MaxVideos - 1) : Main_Search(ok, n)
  \/ \E ok \in BOOLEAN, n \in FireCounts : Main_Comments(ok, n)
  \/ \E ok \in BOOLEAN : Main_Insert(ok)
  \/ Main_Sleep

SpecFire == InitJob /\ [][NextFire]_vars

\* a store of more articles than the recommendation limit: ids 1, 2, ... in
\* the order of publication, all anime but the few in other
ManyIds == 1..NumManyArticles
ManyRows(other) ==
  [id \in ManyIds |->
     [id |-> id, category |-> IF id \in other THEN "game" ELSE "anime",
      published_at |-> id, view_count |-> 0, comment_count |-> 0]]

ManyBodies ==
  [categories : Opt({<<>>, <<"anime">>, <<"anime", "game">>}),
   viewed_articles :
     Opt({<<>>, <<NumManyArticles>>, <<NumManyArticles - 1, 1>>,
          <<3, NumManyArticles, NumManyArticles + 1>>})]

InitMany ==
  /\ \E other \in SUBSET ManyIds :
       /\ Cardinality(other) <= MaxOther
       /\ articles = ManyRows(other)
  /\ comments = <<>>
  /\ user_preferences = <<>>
  /\ prefOk = [u \in UserIds |-> 0]
  /\ clock = 1
  /\ InitRequests

NextMany ==
  \E b \in ManyBodies, ok \in BOOLEAN : RecommendArticles("r1", b, ok)

SpecMany == InitMany /\ [][NextMany]_vars

\* the comment handler alone, over bodies that vary user_name and user_avatar
NextNames ==
  \/ \E r \in Slots, b \in NamedCommentBodies : PostComment_Start(r, b)
  \/ \E r \in Slots, ok \in BOOLEAN : PostComment_Insert(r, ok)
  \/ \E r \in Slots, ok \in BOOLEAN : PostComment_ReadCount(r, ok)
  \/ \E r \in Slots, ok \in BOOLEAN : PostComment_UpdateCount(r, ok)

SpecNames == Init /\ [][NextNames]_vars

\* ------------------------------------------------------------------ claims
\* a field the client left out or sent empty
Missing(o) == o = Absent \/ o = Some("")
Arrives(r) == req'[r].seq # req[r].seq
ElemsOf(list) == {list[i] : i \in 1..Len(list)}

\* C1: a POST /api/comments whose article_id or text is missing or empty is
\* answered 400 in the step it arrives, and that step leaves the comments
\* collection and every article row (its comment_count) as they were.
C1_MissingFieldIs400 ==
  [][\A r \in Slots :
       (Arrives(r) /\ req'[r].kind = "postComment"
          /\ (Missing(req'[r].article_id) \/ Missing(req'[r].text)))
       => (/\ pc'[r] = "done"
           /\ res'[r].status = 400
           /\ comments' = comments
           /\ \A a \in ArticleIds :
                articles'[a].comment_count = articles[a].comment_count)]_vars

\* C1 happens: a request without text was answered 400 while the store holds
\* a comment another request inserted
C1_Witness ==
  \E r \in Slots :
    /\ req[r].kind = "postComment"
    /\ req[r].article_id # Absent /\ Missing(req[r].text)
    /\ pc[r] = "done" /\ res[r].status = 400
    /\ comments # <<>>

\* C2: when a POST /api/comments for an existing article, which no other
\* request touched while it ran, answers 200, the article's comment_count is
\* exactly 1 above its value when the request arrived, and the step changes no
\* other article's comment_count.
C2_CommentCountPlusOne ==
  [][\A r \in Slots :
       (pc[r] = "post_update_count" /\ pc'[r] = "done" /\ alone[r]
          /\ req[r].article_id[1] \in ArticleIds)
       => LET id == req[r].article_id[1]
          IN /\ res'[r].status = 200
             /\ articles'[id].comment_count = pre[r][id].comment_count + 1
             /\ \A a \in ArticleIds \ {id} :
                  articles'[a].comment_count = articles[a].comment_count]_vars

\* C3: a 200 answer of POST /api/recommendations/articles to a non-empty
\* viewed_articles list holds no article whose id is in that list.
C3_NoViewedArticle ==
  \A r \in Slots :
    (req[r].kind = "recommendArticles" /\ res[r].status = 200
       /\ ViewedOf(req[r]) # <<>>)
    => \A i \in 1..Len(res[r].data) :
         res[r].data[i].id \notin ElemsOf(ViewedOf(req[r]))

\* C3 happens: the answer is not empty and a viewed article that matches the
\* category set was left out of it
C3_Witness ==
  \E r \in Slots :
    /\ req[r].kind = "recommendArticles" /\ res[r].status = 200
    /\ Len(ViewedOf(req[r])) = 2
    /\ res[r].data # <<>>
    /\ \E a \in CategoriesFilter(AllRows, req[r].categories) :
         a.id = ViewedOf(req[r])[2]

\* C4: when the second of two POST /api/user-preferences requests for a user,
\* each answered 200 and the second running alone, is answered, the store
\* holds exactly one row for that user, and its last_visit is a time read
\* during the second request.
C4_SecondUpsertOneRecord ==
  [][\A r \in Slots :
       (pc[r] = "prefs_write" /\ pc'[r] = "done" /\ res'[r].status = 200
          /\ alone[r] /\ prefOk[req[r].user_id[1]] = 1)
       => LET rows == RowsOf(user_preferences', req[r].user_id[1])
          IN /\ Cardinality(rows) = 1
             /\ \A i \in rows :
                  /\ user_preferences'[i].last_visit >= req[r].at
                  /\ user_preferences'[i].last_visit <= clock']_vars

\* C5: after the write of a POST /api/user-preferences request, no store call
\* having failed so far, no user_id has more than one row (a case of: in every
\* reachable state there is at most one row per user_id).
C5_AtMostOneRecordPerUser ==
  [][\A r \in Slots :
       (pc[r] = "prefs_write" /\ pc'[r] = "done" /\ ~anyErr')
       => \A u \in UserIds : Cardinality(RowsOf(user_preferences', u)) <= 1]_vars

\* C6: a 200 answer of GET /api/articles to a category query parameter that
\* names a category holds only articles of that category.
C6_OnlyMatchingCategory ==
  \A r \in Slots :
    (req[r].kind = "listArticles" /\ res[r].status = 200
       /\ req[r].category \in {Some(c) : c \in Categories})
    => \A i \in 1..Len(res[r].data) :
         res[r].data[i].category = req[r].category[1]

\* C6 happens: a filtered answer is not empty while the store holds an article
\* of another category
C6_Witness ==
  \E r \in Slots :
    /\ req[r].kind = "listArticles" /\ res[r].status = 200
    /\ req[r].category \in {Some(c) : c \in Categories}
    /\ res[r].data # <<>>
    /\ \E a \in AllRows : a.category # req[r].category[1]

\* C7: when GET /api/articles/:id for an existing article, which no other
\* request touched while it ran, answers, the answer is 200 with the article,
\* its reactions and its comments, the stored view_count is exactly 1 above
\* its value when the request arrived, and no other article's view_count
\* changed.
C7_ViewCountPlusOne ==
  [][\A r \in Slots :
       (pc[r] = "get_update_view" /\ pc'[r] = "done" /\ alone[r])
       => LET id == req[r].id
          IN /\ res'[r].status = 200
             /\ res'[r].data.article.id = id
             /\ res'[r].data.reactions = ByArticleDesc(Reactions, id)
             /\ res'[r].data.comments = ByArticleDesc(comments, id)
             /\ articles'[id].view_count = pre[r][id].view_count + 1
             /\ \A a \in ArticleIds \ {id} :
                  articles'[a].view_count = articles[a].view_count]_vars

\* C8: a request one of whose store calls returned an error is answered 500.
C8_StoreErrorIs500 ==
  \A r \in Slots : (pc[r] = "done" /\ gwErr[r]) => res[r].status = 500

\* C9: the update of POST /api/user-preferences, taken for a user whose row
\* the handler found (no store call having failed so far), leaves in every row of that user the supplied value of
\* favorite_categories and viewed_articles where one was supplied and the value
\* stored just before the update where it was omitted, sets last_visit to the
\* time of the update, and leaves user_id and the other users' rows alone.
C9_MergeFieldByField ==
  [][\A r \in Slots :
       (pc[r] = "prefs_write" /\ pc'[r] = "done" /\ res'[r].status = 200
          /\ local[r].existing # Absent /\ ~anyErr')
       => /\ Len(user_preferences') = Len(user_preferences)
          /\ \A i \in 1..Len(user_preferences) :
               LET old == user_preferences[i]
                   new == user_preferences'[i]
               IN IF old.user_id = req[r].user_id[1]
                  THEN /\ new.user_id = old.user_id
                       /\ new.favorite_categories =
                            IF req[r].favorite_categories # Absent
                            THEN req[r].favorite_categories[1]
                            ELSE old.favorite_categories
                       /\ new.viewed_articles =
                            IF req[r].viewed_articles # Absent
                            THEN req[r].viewed_articles[1]
                            ELSE old.viewed_articles
                       /\ new.last_visit = clock'
                  ELSE new = old]_vars

\* the page the caller asked for: positions o .. o+l-1 of the list
PageOf(list, o, l) ==
  SubSeq(list, o + 1, IF o + l < Len(list) THEN o + l ELSE Len(list))

\* C10: a 200 answer of GET /api/articles is the page of the published_at-
\* descending (category-filtered) list that starts at position offset and holds
\* at most limit articles, an omitted offset being 0 and an omitted limit 20.
C10_PageIsOffsetLimit ==
  \A r \in Slots :
    (req[r].kind = "listArticles" /\ res[r].status = 200)
    => res[r].data =
         PageOf(SortDesc(CategoryFilter(AllRows, req[r].category)),
                IF req[r].offset = Absent THEN 0 ELSE req[r].offset[1],
                IF req[r].limit = Absent THEN 20 ELSE req[r].limit[1])


\* the step in which request r inserts its comment row
Inserts(r) == pc[r] = "post_insert" /\ pc'[r] = "post_read_count"

\* C11: the comment row a POST /api/comments inserts carries, field by field,
\* the anonymous label when user_name was left out and the default glyph when
\* user_avatar was left out, and the supplied value unchanged when a non-empty
\* one was sent; article_id and text are stored as sent, and the row is the
\* one new row of the collection.
C11_DefaultsAndSuppliedNames ==
  [][\A r \in Slots :
       Inserts(r)
       => LET b == req[r]
              row == comments'[Len(comments')]
          IN /\ Len(comments') = Len(comments) + 1
             /\ SubSeq(comments', 1, Len(comments)) = comments
             /\ row.article_id = b.article_id[1]
             /\ row.text = b.text[1]
             /\ (b.user_name = Absent => row.user_name = AnonymousName)
             /\ (b.user_avatar = Absent => row.user_avatar = DefaultAvatar)
             /\ (~Missing(b.user_name) => row.user_name = b.user_name[1])
             /\ (~Missing(b.user_avatar) => row.user_avatar = b.user_avatar[1])]_vars

\* C11 happens: the store holds a row inserted for a body without name and
\* avatar and a row inserted for a body that sent both
C11_Witness ==
  /\ Len(comments) = 2
  /\ \E r, s \in Slots :
       /\ r # s
       /\ pc[r] = "done" /\ res[r].status = 200
       /\ pc[s] = "done" /\ res[s].status = 200
       /\ req[r].kind = "postComment" /\ req[s].kind = "postComment"
       /\ req[r].seq = 1 /\ req[s].seq = 2
       /\ req[r].user_name = Absent /\ req[r].user_avatar = Absent
       /\ req[s].user_name = Some("taro") /\ req[s].user_avatar = Some("cat-glyph")
       /\ \E i, j \in 1..2 :
            /\ comments[i].user_name = AnonymousName
            /\ comments[i].user_avatar = DefaultAvatar
            /\ comments[j].user_name = "taro"
            /\ comments[j].user_avatar = "cat-glyph"

\* the requests of a SpecRace behaviour, once none is in flight and no store
\* call failed: every POST inserted one comment, every other request was a GET
Settled == ~anyErr /\ \A r \in Slots : ~InFlight(r)
PostsDone == Len(comments)
GetsDone == started - Len(comments)
Grown(n, counter) == IF n = 0 THEN counter = 0 ELSE counter \in 1..n

\* C12: after N GET /api/articles/:id (N valid POST /api/comments) against
\* one article, concurrent or not, all of whose store calls succeeded, the
\* view_count (comment_count) has grown by at least 1 and at most N; the
\* witness is the run in which it grew by fewer than N.
C12_GrowthAtMostRequests ==
  Settled => /\ Grown(GetsDone, articles["a1"].view_count)
             /\ Grown(PostsDone, articles["a1"].comment_count)

\* C12 happens: two GETs and two POSTs for a1 all succeeded, and view_count
\* and comment_count each grew by 1 only
C12_Witness ==
  /\ Settled
  /\ started = 4
  /\ GetsDone = 2 /\ PostsDone = 2
  /\ \A r \in Slots : pc[r] = "done" /\ res[r].status = 200
  /\ articles["a1"].view_count = 1
  /\ articles["a1"].comment_count = 1

\* the categories searched so far, and the videos those searches returned
Searched == [i \in 1..Len(jobLog.searches) |-> jobLog.searches[i].category]
RECURSIVE FoundUpTo(_)
FoundUpTo(k) ==
  IF k = 0 THEN <<>>
  ELSE FoundUpTo(k - 1)
         \o VideoItems(jobLog.searches[k].category, jobLog.searches[k].found)
Found == FoundUpTo(Len(jobLog.searches))
IsPrefix(short, long) ==
  Len(short) <= Len(long) /\ SubSeq(long, 1, Len(short)) = short
SavedVideos == {ingested[i].source_url : i \in 1..Len(ingested)}

\* C13: every run of the ingestion job reaches the end of main; on the way
\* the pairs are searched in the order anime, game, music and the videos are
\* tried in the order they were found, and at the end all three pairs have
\* been searched and every video a search returned has had its insert tried,
\* whichever searches, comment fetches and inserts failed.
C13_TerminatesAndSkipsFailures ==
  /\ <>(job.pc = "done")
  /\ [](IsPrefix(Searched, keywords) /\ IsPrefix(jobLog.tried, Found))
  /\ [](job.pc = "done" => (Searched = keywords /\ jobLog.tried = Found))

\* C13 happens: the run ended after the search for anime failed and the
\* later pairs returned videos, an insert was rejected and a later video was
\* saved, and a comment fetch failed (an article saved with no comments,
\* where the platform answers 20) and a later video was saved
C13_Witness ==
  /\ job.pc = "done"
  /\ ~jobLog.searches[1].ok
  /\ jobLog.searches[2].found > 0 /\ jobLog.searches[3].found > 0
  /\ \E i, j \in 1..Len(jobLog.tried) :
       /\ i < j
       /\ jobLog.tried[i] \notin SavedVideos
       /\ jobLog.tried[j] \in SavedVideos
  /\ \E i, j \in 1..Len(ingested) :
       /\ i < j
       /\ ingested[i].comment_count = 0
       /\ ingested[j].comment_count = MaxComments

\* C14: at every await of a run totalArticles is the number of rows the run
\* has inserted; no video has had its insert tried twice and only videos a
\* search returned are tried; and when no search returned more than 3 videos
\* the run has inserted at most 9 rows.
C14_CountIsRowsInserted ==
  /\ job.totalArticles = Len(ingested)
  /\ \A i, j \in 1..Len(jobLog.tried) :
       jobLog.tried[i] = jobLog.tried[j] => i = j
  /\ \A i \in 1..Len(jobLog.tried) :
       \E k \in 1..Len(Found) : Found[k] = jobLog.tried[i]
  /\ SavedVideos \subseteq {jobLog.tried[i] : i \in 1..Len(jobLog.tried)}
  /\ Cardinality(SavedVideos) = Len(ingested)
  /\ (\A k \in 1..Len(jobLog.searches) : jobLog.searches[k].found <= MaxVideos)
       => Len(ingested) <= Len(keywords) * MaxVideos

\* C14 happens: the run ended having tried nine videos, one insert was
\* rejected, and totalArticles is 8, the number of rows inserted
C14_Witness ==
  /\ job.pc = "done"
  /\ Len(jobLog.tried) = 9
  /\ Len(ingested) = 8
  /\ job.totalArticles = 8

\* C15: no step lowers the stored view_count or comment_count of an article:
\* every write to a counter writes at least the value stored just before it.
C15_CountersNeverDecrease ==
  [][\A a \in ArticleIds :
       /\ articles'[a].view_count >= articles[a].view_count
       /\ articles'[a].comment_count >= articles[a].comment_count]_vars

\* C16: every row the job has inserted carries comment_count = the number of
\* comments fetched for its video and is_fire = (that number > 50); a row
\* whose fetch returned no more than the 20 comments asked for has is_fire
\* false and comment_count at most 20.
C16_FireIffOverFifty ==
  /\ Len(jobLog.fetched) = Len(ingested)
  /\ \A k \in 1..Len(ingested) :
       LET fetched == jobLog.fetched[k]
           row == ingested[k]
       IN /\ row.comment_count = fetched
          /\ row.is_fire = (fetched > 50)
          /\ fetched <= 20 => (~row.is_fire /\ row.comment_count <= 20)

\* C16 happens: the run has inserted a row for a video with 51 comments
\* (is_fire), one for a video with 50 and one for a video with 20 (neither
\* is_fire)
C16_Witness ==
  \E a, b, c \in 1..Len(ingested) :
    /\ ingested[a].comment_count = 51 /\ ingested[a].is_fire
    /\ ingested[b].comment_count = 50 /\ ~ingested[b].is_fire
    /\ ingested[c].comment_count = 20 /\ ~ingested[c].is_fire

\* the articles a recommendation request asks for: those of one of its
\* categories, all of them when it names none
Matching(q) ==
  IF q.categories = Absent \/ q.categories = Some(<<>>)
  THEN AllRows
  ELSE {a \in AllRows : a.category \in ElemsOf(q.categories[1])}
\* the 10 most recently published of a set of rows
TenNewest(rows) ==
  {a \in rows :
     Cardinality({b \in rows : b.published_at > a.published_at}) < 10}

\* C17: the data of a 200 answer of POST /api/recommendations/articles holds
\* exactly the articles that are among the 10 most recently published
\* matching ones and are not in viewed_articles, each once, the most recently
\* published first, hence at most 10 of them: the viewed ones are taken out
\* of the 10, not replaced by older ones.
C17_TenNewestMinusViewed ==
  \A r \in Slots :
    (req[r].kind = "recommendArticles" /\ res[r].status = 200)
    => LET data == res[r].data
           expected == {a \in TenNewest(Matching(req[r])) :
                          a.id \notin ElemsOf(ViewedOf(req[r]))}
       IN /\ Len(data) <= 10
          /\ ElemsOf(data) = expected
          /\ Len(data) = Cardinality(expected)
          /\ \A i, j \in 1..Len(data) :
               i < j => data[i].published_at > data[j].published_at

\* C17 happens: more than 10 articles match, two of the 10 newest are viewed,
\* and the answer holds the other 8 and not the unviewed eleventh
C17_Witness ==
  \E r \in Slots :
    /\ req[r].kind = "recommendArticles" /\ res[r].status = 200
    /\ req[r].categories = Some(<<"anime">>)
    /\ Cardinality(Matching(req[r])) > 10
    /\ Len(res[r].data) = 8
    /\ \E a \in Matching(req[r]) :
         /\ a.id \notin ElemsOf(ViewedOf(req[r]))
         /\ a \notin ElemsOf(res[r].data)
====
